---- MODULE Spec2Model ----
(***************************************************************************)
(* Model of the Mini-Atlas MCP server: the tool-call handler, the          *)
(* validators and resource builder of utils.ts, the apply / get / delete / *)
(* list operations of MiniAtlasMCPServer and the connectivity bootstrap.   *)
(*                                                                         *)
(* JavaScript strings are sequences of one-character strings, so that the  *)
(* regular expressions, toLowerCase and split are computed on characters.  *)
(* JavaScript values that may be undefined, a string or a number are       *)
(* tagged records (Undef, Str(s), Num2(k)).                                *)
(***************************************************************************)
EXTENDS Integers, Sequences, FiniteSets, TLC

(***************************************************************************)
(* Bounds of the model.                                                    *)
(***************************************************************************)
\* largest value new Date() returns (the wall clock is not monotonic)
MaxClock == 1
\* number of tool calls of its own choice the client sends in one run (it
\* may repeat each create / deploy call once on top of that)
MaxRequests == 1
\* largest maxAttempts retry is called with when called on its own
MaxAttempts == 4
\* longest name drawn character by character for the validators
MaxLen == 3
\* how far past the ends of the accepted range the replica counts drawn go
MaxOver == 2

(***************************************************************************)
(* Characters and strings.                                                 *)
(***************************************************************************)
LowerSeq == <<"a", "b", "c", "d", "e", "f", "g", "h", "i", "j", "k", "l", "m",
              "n", "o", "p", "q", "r", "s", "t", "u", "v", "w", "x", "y", "z">>
UpperSeq == <<"A", "B", "C", "D", "E", "F", "G", "H", "I", "J", "K", "L", "M",
              "N", "O", "P", "Q", "R", "S", "T", "U", "V", "W", "X", "Y", "Z">>
Lower == {LowerSeq[i] : i \in 1..26}
Upper == {UpperSeq[i] : i \in 1..26}
Digit == {"0", "1", "2", "3", "4", "5", "6", "7", "8", "9"}
Alnum == Lower \cup Upper \cup Digit

\* String.prototype.toLowerCase on one character
LowerOf(c) ==
    IF c \in Upper
    THEN LowerSeq[CHOOSE i \in 1..26 : UpperSeq[i] = c]
    ELSE c

toLowerCase(s) == [i \in 1..Len(s) |-> LowerOf(s[i])]

\* 'a'.repeat(n)
Repeat(c, n) == [i \in 1..n |-> c]

\* the set of positions of character c in s
Positions(s, c) == {i \in 1..Len(s) : s[i] = c}

\* String.prototype.split(sep) for a one-character separator
RECURSIVE split(_, _)
split(s, sep) ==
    IF Positions(s, sep) = {}
    THEN <<s>>
    ELSE LET p == CHOOSE i \in Positions(s, sep) :
                      \A j \in Positions(s, sep) : i <= j
         IN  <<SubSeq(s, 1, p - 1)>> \o split(SubSeq(s, p + 1, Len(s)), sep)

(***************************************************************************)
(* JavaScript values.                                                      *)
(***************************************************************************)
Undef == [t |-> "undefined"]
Str(s) == [t |-> "string", s |-> s]
\* a number, held as twice its value so that n + 1/2 is representable
Num2(k) == [t |-> "number", twice |-> k]
Num(n) == Num2(2 * n)

Bool(b) == [t |-> "boolean", b |-> b]

IsStr(v) == v.t = "string"
IsNum(v) == v.t = "number"
\* JavaScript truthiness of a value
Truthy(v) ==
    CASE v.t = "undefined" -> FALSE
      [] v.t = "string" -> Len(v.s) > 0
      [] v.t = "number" -> v.twice # 0
      [] v.t = "boolean" -> v.b
      [] OTHER -> TRUE

(***************************************************************************)
(* Validators (utils.ts).  Each returns TRUE when the function returns     *)
(* normally and FALSE when it throws ValidationError.                      *)
(***************************************************************************)
MaxNameLength == 63
MaxHostnameLength == 253
MaxReplicas == 100

\* nameRegex without the rule for the last character: /^[a-z0-9][-a-z0-9]*$/
nameRegexOpenEnd(s) ==
    /\ Len(s) >= 1
    /\ s[1] \in Lower \cup Digit
    /\ \A i \in 1..Len(s) : s[i] \in Lower \cup Digit \cup {"-"}

\* /^[a-z0-9]([-a-z0-9]*[a-z0-9])?$/
nameRegex(s) ==
    /\ Len(s) >= 1
    /\ s[1] \in Lower \cup Digit
    /\ s[Len(s)] \in Lower \cup Digit
    /\ \A i \in 1..Len(s) : s[i] \in Lower \cup Digit \cup {"-"}

validateResourceName(name) ==
    /\ Truthy(name) /\ IsStr(name)
    /\ nameRegex(name.s)
    /\ ~(Len(name.s) > MaxNameLength)

validateNamespace(namespace) == validateResourceName(namespace)

\* /^[a-zA-Z0-9._/-]+(?::[a-zA-Z0-9._-]+)?$/
imageRegex(s) ==
    LET NameCh == Alnum \cup {".", "_", "/", "-"}
        TagCh  == Alnum \cup {".", "_", "-"}
    IN  \/ /\ Len(s) >= 1
           /\ \A i \in 1..Len(s) : s[i] \in NameCh
        \/ \E p \in 2..(Len(s) - 1) :
              /\ s[p] = ":"
              /\ \A i \in 1..(p - 1) : s[i] \in NameCh
              /\ \A i \in (p + 1)..Len(s) : s[i] \in TagCh

validateImageReference(image) ==
    /\ Truthy(image) /\ IsStr(image)
    /\ imageRegex(image.s)

\* one label of the hostname pattern: [a-zA-Z0-9]([a-zA-Z0-9-]*[a-zA-Z0-9])?
hostLabel(l) ==
    /\ Len(l) >= 1
    /\ l[1] \in Alnum
    /\ l[Len(l)] \in Alnum
    /\ \A i \in 1..Len(l) : l[i] \in Alnum \cup {"-"}

\* /^label(\.label)*$/
hostnameRegex(s) ==
    LET labels == split(s, ".")
    IN  \A i \in 1..Len(labels) : hostLabel(labels[i])

validateHostname(hostname) ==
    /\ Truthy(hostname) /\ IsStr(hostname)
    /\ hostnameRegex(hostname.s)
    /\ ~(Len(hostname.s) > MaxHostnameLength)

\* Number.isInteger
IsInteger(v) == IsNum(v) /\ v.twice % 2 = 0

\* validateReplicas that rejects the upper limit itself
validateReplicasBelowMax(replicas) ==
    /\ ~(~IsInteger(replicas) \/ replicas.twice < 0)
    /\ ~(replicas.twice >= 2 * MaxReplicas)

validateReplicas(replicas) ==
    /\ ~(~IsInteger(replicas) \/ replicas.twice < 0)
    /\ ~(replicas.twice > 2 * MaxReplicas)

\* /^[a-zA-Z_][a-zA-Z0-9_]*$/
envKeyRegex(s) ==
    /\ Len(s) >= 1
    /\ s[1] \in Lower \cup Upper \cup {"_"}
    /\ \A i \in 1..Len(s) : s[i] \in Alnum \cup {"_"}

\* an environment map is a sequence of <<key, value>> entries
EnvMap(entries) == [t |-> "object", entries |-> entries]

validateEnvironmentVariables(env) ==
    \/ ~Truthy(env)
    \/ env.t # "object"
    \/ \A i \in 1..Len(env.entries) :
          /\ IsStr(env.entries[i][2])
          /\ envKeyRegex(env.entries[i][1])

(***************************************************************************)
(* String constants of the program.                                        *)
(***************************************************************************)
Workspace == <<"W", "o", "r", "k", "s", "p", "a", "c", "e">>
WebApplication == <<"W", "e", "b", "A", "p", "p", "l", "i", "c", "a", "t",
                    "i", "o", "n">>
Infrastructure == <<"I", "n", "f", "r", "a", "s", "t", "r", "u", "c", "t",
                    "u", "r", "e">>
Topic == <<"T", "o", "p", "i", "c">>
Kinds == <<Workspace, WebApplication, Infrastructure, Topic>>

ApiVersion == <<"k", "r", "o", ".", "r", "u", "n", "/", "v", "1", "a", "l",
                "p", "h", "a", "1">>
KroGroup == <<"k", "r", "o", ".", "r", "u", "n">>
V1Alpha1 == <<"v", "1", "a", "l", "p", "h", "a", "1">>
DefaultNs == <<"d", "e", "f", "a", "u", "l", "t">>

\* a || b
Or(a, b) == IF Truthy(a) THEN a ELSE b
\* a ?? b
Coalesce(a, b) == IF a.t = "undefined" THEN b ELSE a

(***************************************************************************)
(* utils.ts: plural, API version.                                          *)
(***************************************************************************)
\* property names every object literal inherits from Object.prototype:
\* pluralMap[kind] is defined (and truthy) for them although pluralMap has
\* no such entry of its own
ObjectPrototypeNames ==
    {<<"c", "o", "n", "s", "t", "r", "u", "c", "t", "o", "r">>,
     <<"t", "o", "S", "t", "r", "i", "n", "g">>,
     <<"v", "a", "l", "u", "e", "O", "f">>}
\* the inherited value, which is not a string
Inherited(name) == <<"Object.prototype">> \o name

getResourcePlural(kind) ==
    CASE kind = Workspace ->
             <<"w", "o", "r", "k", "s", "p", "a", "c", "e", "s">>
      [] kind = WebApplication ->
             <<"w", "e", "b", "a", "p", "p", "l", "i", "c", "a", "t", "i",
               "o", "n", "s">>
      [] kind = Infrastructure ->
             <<"i", "n", "f", "r", "a", "s", "t", "r", "u", "c", "t", "u",
               "r", "e", "s">>
      [] kind = Topic -> <<"t", "o", "p", "i", "c", "s">>
      [] kind \in ObjectPrototypeNames -> Inherited(kind)
      [] OTHER -> toLowerCase(kind) \o <<"s">>

\* parseApiVersion that takes a string without '/' for the group
parseApiVersionGroupFirst(apiVersion) ==
    LET parts == split(apiVersion, "/")
    IN  IF Len(parts) = 1
        THEN [group |-> parts[1], version |-> <<>>]
        ELSE [group |-> parts[1], version |-> parts[2]]

parseApiVersion(apiVersion) ==
    LET parts == split(apiVersion, "/")
    IN  IF Len(parts) = 1
        THEN [group |-> <<>>, version |-> parts[1]]
        ELSE [group |-> parts[1], version |-> parts[2]]

(***************************************************************************)
(* utils.ts: createAtlasResource.  The result is [ok |-> FALSE] when the   *)
(* builder throws ValidationError and [ok |-> TRUE, doc |-> d] otherwise;  *)
(* clock is the value new Date() reads.                                    *)
(***************************************************************************)
\* Metadata that also stamps the creation time into a label
MetadataStamped(kind, name, namespace, clock) ==
    LET base == [name |-> name,
                 labels |-> [managedBy |-> "mini-atlas-mcp",
                             resourceType |-> toLowerCase(kind),
                             createdAt |-> clock],
                 annotations |-> [createdBy |-> "mcp-server",
                                  createdAt |-> clock]]
    IN  IF Truthy(namespace)
        THEN [name |-> base.name, labels |-> base.labels,
              annotations |-> base.annotations, namespace |-> namespace]
        ELSE base

Metadata(kind, name, namespace, clock) ==
    LET base == [name |-> name,
                 labels |-> [managedBy |-> "mini-atlas-mcp",
                             resourceType |-> toLowerCase(kind)],
                 annotations |-> [createdBy |-> "mcp-server",
                                  createdAt |-> clock]]
    IN  IF Truthy(namespace)
        THEN [name |-> base.name, labels |-> base.labels,
              annotations |-> base.annotations, namespace |-> namespace]
        ELSE base

\* createAtlasResource that records the build time in the spec
createAtlasResourceBuiltAt(kind, name, namespace, spec, clock) ==
    IF ~validateResourceName(name) THEN [ok |-> FALSE]
    ELSE IF Truthy(namespace) /\ ~validateNamespace(namespace)
    THEN [ok |-> FALSE]
    ELSE [ok |-> TRUE,
          doc |-> [apiVersion |-> ApiVersion,
                   kind |-> kind,
                   metadata |-> Metadata(kind, name, namespace, clock),
                   spec |-> [builtAt |-> clock, spec |-> spec]]]

createAtlasResource(kind, name, namespace, spec, clock) ==
    IF ~validateResourceName(name) THEN [ok |-> FALSE]
    ELSE IF Truthy(namespace) /\ ~validateNamespace(namespace)
    THEN [ok |-> FALSE]
    ELSE [ok |-> TRUE,
          doc |-> [apiVersion |-> ApiVersion,
                   kind |-> kind,
                   metadata |-> Metadata(kind, name, namespace, clock),
                   spec |-> spec]]

\* resource.metadata.namespace, undefined when the field is absent
NamespaceOf(doc) ==
    IF "namespace" \in DOMAIN doc.metadata
    THEN doc.metadata.namespace ELSE Undef

(***************************************************************************)
(* Tool calls: the arguments a client may send.                            *)
(***************************************************************************)
NameInputs == {Str(<<"a", "p", "i">>), Str(<<"A", "p", "i">>)}
NsInputs == {Str(<<"t", "-", "a">>), Str(<<"-", "a">>)}
ImageInputs == {Str(<<"n", ":", "1">>), Str(<<"n", " ", "x">>)}
HostInputs == {Str(<<"a", ".", "b">>), Str(<<"a", ".", ".", "b">>)}
ReplicaInputs == {Undef, Num(0), Num(101)}
EnvInputs == {Undef,
              EnvMap(<< <<(<<"K">>), Str(<<"v">>)>> >>),
              EnvMap(<< <<(<<"1">>), Str(<<"v">>)>> >>)}
DbInputs == {Str(<<"d", "b">>), Str(<<"D", "B">>)}
TypeInputs == {"workspace", "webapp", "infrastructure", "topic", "bogus"}

CreateWorkspaceArgs ==
    [name : NameInputs, description : {Undef}, team : {Undef},
     environment : {Undef}]
DeployWebAppArgs ==
    [name : NameInputs, namespace : NsInputs, image : ImageInputs,
     tag : {Undef}, replicas : ReplicaInputs, host : HostInputs,
     port : {Undef}, env : EnvInputs, resources : {Undef}]
CreateInfrastructureArgs ==
    [name : NameInputs, namespace : NsInputs, database : DbInputs,
     databaseVersion : {Undef}, storageSize : {Undef},
     redisEnabled : {Undef}, backupEnabled : {Undef}]
CreateTopicArgs ==
    [name : NameInputs, namespace : NsInputs, partitions : {Undef},
     replicationFactor : {Undef}, retentionMs : {Undef}]
ResourceRefArgs ==
    [name : NameInputs, type : TypeInputs,
     namespace : {Undef, Str(<<"t", "-", "a">>)}]
ListResourcesArgs ==
    [type : (TypeInputs \ {"bogus"}) \cup {"all"},
     namespace : {Undef} \cup NsInputs]

ApplyTools == {"create_workspace", "deploy_webapp", "create_infrastructure",
               "create_topic"}

ArgsOf(tool) ==
    CASE tool = "create_workspace" -> CreateWorkspaceArgs
      [] tool = "deploy_webapp" -> DeployWebAppArgs
      [] tool = "create_infrastructure" -> CreateInfrastructureArgs
      [] tool = "create_topic" -> CreateTopicArgs
      [] tool = "get_resource_status" -> ResourceRefArgs
      [] tool = "delete_resource" -> ResourceRefArgs
      [] tool = "list_resources" -> ListResourcesArgs
      [] OTHER -> {Undef}

Tools == ApplyTools \cup {"get_resource_status", "delete_resource",
                          "list_resources", "get_cluster_status",
                          "unknown_tool"}

(***************************************************************************)
(* server: the validations each create / deploy tool runs, in order, and   *)
(* the document it builds.                                                 *)
(***************************************************************************)
KindOfTool(tool) ==
    CASE tool = "create_workspace" -> Workspace
      [] tool = "deploy_webapp" -> WebApplication
      [] tool = "create_infrastructure" -> Infrastructure
      [] tool = "create_topic" -> Topic

\* ValidateArgs with the hostname check of deployWebApp left out
ValidateArgsNoHost(tool, args) ==
    CASE tool = "create_workspace" ->
            validateResourceName(args.name)
      [] tool = "deploy_webapp" ->
            /\ validateResourceName(args.name)
            /\ validateNamespace(args.namespace)
            /\ validateImageReference(args.image)
            /\ (args.replicas # Undef => validateReplicas(args.replicas))
            /\ (Truthy(args.env) => validateEnvironmentVariables(args.env))
      [] tool = "create_infrastructure" ->
            /\ validateResourceName(args.name)
            /\ validateNamespace(args.namespace)
            /\ validateResourceName(args.database)
      [] tool = "create_topic" ->
            /\ validateResourceName(args.name)
            /\ validateNamespace(args.namespace)

\* TRUE when no validate* call of the tool's function throws
ValidateArgs(tool, args) ==
    CASE tool = "create_workspace" ->
            validateResourceName(args.name)
      [] tool = "deploy_webapp" ->
            /\ validateResourceName(args.name)
            /\ validateNamespace(args.namespace)
            /\ validateImageReference(args.image)
            /\ validateHostname(args.host)
            /\ (args.replicas # Undef => validateReplicas(args.replicas))
            /\ (Truthy(args.env) => validateEnvironmentVariables(args.env))
      [] tool = "create_infrastructure" ->
            /\ validateResourceName(args.name)
            /\ validateNamespace(args.namespace)
            /\ validateResourceName(args.database)
      [] tool = "create_topic" ->
            /\ validateResourceName(args.name)
            /\ validateNamespace(args.namespace)

SpecOf(tool, args) ==
    CASE tool = "create_workspace" ->
            [name |-> args.name,
             description |-> args.description,
             team |-> args.team,
             environment |->
                 Or(args.environment,
                    Str(<<"d", "e", "v", "e", "l", "o", "p", "m", "e", "n",
                          "t">>))]
      [] tool = "deploy_webapp" ->
            [name |-> args.name,
             namespace |-> args.namespace,
             image |-> args.image,
             tag |-> Or(args.tag, Str(<<"l", "a", "t", "e", "s", "t">>)),
             replicas |-> Or(args.replicas, Num(1)),
             host |-> args.host,
             port |-> Or(args.port, Num(8080)),
             env |-> args.env,
             resources |-> args.resources]
      [] tool = "create_infrastructure" ->
            [name |-> args.name,
             namespace |-> args.namespace,
             database |-> args.database,
             databaseVersion |-> Or(args.databaseVersion, Str(<<"1", "5">>)),
             storageSize |->
                 Or(args.storageSize, Str(<<"1", "0", "G", "i">>)),
             redisEnabled |-> Bool(args.redisEnabled # Bool(FALSE)),
             backupEnabled |-> Bool(args.backupEnabled # Bool(FALSE))]
      [] tool = "create_topic" ->
            [name |-> args.name,
             namespace |-> args.namespace,
             partitions |-> Or(args.partitions, Num(3)),
             replicationFactor |-> Or(args.replicationFactor, Num(3)),
             retentionMs |-> args.retentionMs]

\* BuilderNamespace that places a Workspace in the default namespace
BuilderNamespaceDefault(tool, args) ==
    IF tool = "create_workspace" THEN Str(DefaultNs) ELSE args.namespace

\* the namespace argument the tool passes to createAtlasResource
BuilderNamespace(tool, args) ==
    IF tool = "create_workspace" THEN Undef ELSE args.namespace

BuildResource(tool, args, clock) ==
    createAtlasResource(KindOfTool(tool), args.name,
                        BuilderNamespace(tool, args), SpecOf(tool, args),
                        clock)

\* getKindFromType whose map has no entry for topic
getKindFromTypeNoTopic(type) ==
    CASE type = "workspace" -> Str(Workspace)
      [] type = "webapp" -> Str(WebApplication)
      [] type = "infrastructure" -> Str(Infrastructure)
      [] OTHER -> Undef

getKindFromType(type) ==
    CASE type = "workspace" -> Str(Workspace)
      [] type = "webapp" -> Str(WebApplication)
      [] type = "infrastructure" -> Str(Infrastructure)
      [] type = "topic" -> Str(Topic)
      [] OTHER -> Undef

(***************************************************************************)
(* Errors (types.ts) and the catch block of the tool-call handler.         *)
(***************************************************************************)
NoErr == [type |-> "none"]
ValidationError == [type |-> "ValidationError"]
ResourceNotFoundError(resource, name) ==
    [type |-> "ResourceNotFoundError", resource |-> resource, name |-> name]
KubernetesError(details) == [type |-> "KubernetesError", details |-> details]
McpError(code) == [type |-> "McpError", code |-> code]

\* the catch block of the minimal server: every error becomes InternalError
HandlerReplyMinimal(err) ==
    CASE err.type = "none" -> [isError |-> FALSE, code |-> "none"]
      [] OTHER -> [isError |-> TRUE, code |-> "InternalError"]

\* what the handler returns or throws for the outcome of the tool function
HandlerReply(err) ==
    CASE err.type = "none" -> [isError |-> FALSE, code |-> "none"]
      [] err.type = "ValidationError" ->
            [isError |-> TRUE, code |-> "InvalidParams"]
      [] err.type = "ResourceNotFoundError" ->
            [isError |-> TRUE, code |-> "InvalidRequest"]
      [] err.type = "KubernetesError" ->
            [isError |-> TRUE, code |-> "InternalError"]
      [] OTHER -> [isError |-> TRUE, code |-> "InternalError"]

(***************************************************************************)
(* The control plane: a store of custom objects addressed by               *)
(* (group, version, namespace?, plural, name).  A call either takes its    *)
(* natural course on the store or fails with an injected fault.  Status 0  *)
(* stands for an error that carries no HTTP response.                      *)
(***************************************************************************)
\* the statusCode the program tests for; a call that resolves has status 200
NotFound == 404
Conflict == 409

NoDoc == [absent |-> TRUE]

\* namespace is Undef for cluster-scoped addressing
Key(group, version, namespace, plural, name) ==
    [group |-> group, version |-> version, namespace |-> namespace,
     plural |-> plural, name |-> name]

Has(st, key) == \E e \in st : e.key = key
DocAt(st, key) ==
    IF Has(st, key) THEN (CHOOSE e \in st : e.key = key).doc ELSE NoDoc
Put(st, key, doc) ==
    {e \in st : e.key # key} \cup {[key |-> key, doc |-> doc]}
Remove(st, key) == {e \in st : e.key # key}

RECURSIVE SetToSeq(_)
SetToSeq(S) ==
    IF S = {} THEN <<>>
    ELSE LET x == CHOOSE y \in S : TRUE
         IN  <<x>> \o SetToSeq(S \ {x})

\* the items a namespaced list call returns
ItemsIn(st, group, version, namespace, plural) ==
    SetToSeq({e.doc : e \in {f \in st :
        /\ f.key.group = group /\ f.key.version = version
        /\ f.key.plural = plural /\ f.key.namespace = namespace}})
\* the items a cluster-wide list call returns
ItemsOf(st, group, version, plural) ==
    SetToSeq({e.doc : e \in {f \in st :
        /\ f.key.group = group /\ f.key.version = version
        /\ f.key.plural = plural}})

CreateStatus(st, key) == IF Has(st, key) THEN Conflict ELSE 200
LookupStatus(st, key) == IF Has(st, key) THEN 200 ELSE NotFound

\* failures the control plane can answer whatever the store holds
CreateFaults == {0, NotFound}
ReplaceFaults == {0, Conflict}
LookupFaults == {0, 500}
ListFaults == {500}

\* the error object a failed call rejects with; error.response?.statusCode
\* is undefined (0) when there is no response
ApiError(method, status) == [from |-> method, statusCode |-> status]

(***************************************************************************)
(* State.                                                                  *)
(***************************************************************************)
VARIABLES
    boot,       \* the connectivity bootstrap started by the constructor
    connected,  \* server.connect(transport) has completed
    store,      \* the control plane's custom objects
    req,        \* req[r]: the tool call client r has in flight
    served      \* number of tool calls accepted so far

vars == <<boot, connected, store, req, served>>

\* the slots tool calls run in; the sequential client uses the slots of Reqs
Clients == {1, 2}
Reqs == {1}

BootMaxAttempts == 3
BootBaseDelay == 1000

NoReply == [isError |-> FALSE, code |-> "pending"]
\* req[r].first when the call in flight is not a repetition
NoPrev == [tool |-> "none"]

IdleReq ==
    [pc |-> "idle", tool |-> "none", args |-> Undef, doc |-> NoDoc,
     calls |-> <<>>, err |-> NoErr, reply |-> NoReply, items |-> <<>>,
     warnings |-> 0, kinds |-> <<>>, counts |-> <<>>, pre |-> NoDoc,
     post |-> NoDoc, faulted |-> FALSE, first |-> NoPrev, wseq |-> 0]

\* the process is running (process.exit has not been called)
Alive == boot.pc # "exited"

(***************************************************************************)
(* Initial state: the constructor has run.  initializeKubernetesClient has *)
(* issued its first listNamespace and has not been awaited; the transport  *)
(* is not connected yet.  The cluster holds whatever earlier runs left.    *)
(***************************************************************************)
SeedWebArgs ==
    [name |-> Str(<<"a", "p", "i">>), namespace |-> Str(<<"t", "-", "a">>),
     image |-> Str(<<"n", ":", "1">>), tag |-> Undef, replicas |-> Undef,
     host |-> Str(<<"a", ".", "b">>), port |-> Undef, env |-> Undef,
     resources |-> Undef]
SeedTopicArgs ==
    [name |-> Str(<<"a", "p", "i">>), namespace |-> Str(<<"t", "-", "a">>),
     partitions |-> Undef, replicationFactor |-> Undef,
     retentionMs |-> Undef]
SeedWsArgs ==
    [name |-> Str(<<"a", "p", "i">>), description |-> Undef, team |-> Undef,
     environment |-> Undef]

SeedEntry(tool, args, namespace) ==
    LET doc == BuildResource(tool, args, 0).doc
    IN  [key |-> Key(KroGroup, V1Alpha1, namespace,
                     getResourcePlural(doc.kind), doc.metadata.name),
         doc |-> doc]

\* objects left by an earlier run of the server and by an administrator
SeededStore ==
    {SeedEntry("deploy_webapp", SeedWebArgs, SeedWebArgs.namespace),
     SeedEntry("create_topic", SeedTopicArgs, SeedTopicArgs.namespace),
     SeedEntry("create_workspace", SeedWsArgs, Str(DefaultNs)),
     SeedEntry("create_workspace", SeedWsArgs, Undef)}

InitialStores == {{}, SeededStore}

\* the state of retry(operation, maxAttempts, baseDelay) when it has issued
\* its first attempt
RetryStart(maxAttempts, baseDelay) ==
    [pc |-> "pending", attempt |-> 1, waits |-> <<>>,
     maxAttempts |-> maxAttempts, baseDelay |-> baseDelay,
     lastError |-> NoErr, raised |-> NoErr, result |-> Undef]

Init ==
    /\ boot = RetryStart(BootMaxAttempts, BootBaseDelay)
    /\ connected = FALSE
    /\ store \in InitialStores
    /\ req = [r \in Clients |-> IdleReq]
    /\ served = 0

(***************************************************************************)
(* Connectivity bootstrap: retry(listNamespace, 3, 1000), not awaited by   *)
(* the constructor; its rejection calls process.exit(1).                   *)
(***************************************************************************)
\* Math.pow(b, n)
RECURSIVE Pow(_, _)
Pow(b, n) == IF n = 0 THEN 1 ELSE b * Pow(b, n - 1)

\* the error the operation rejects with at the given attempt
AttemptError(attempt) == [from |-> "operation", attempt |-> attempt]

\* RetryFail that sleeps baseDelay * 2^attempt
RetryFailDoubled(rt) ==
    LET lastError == AttemptError(rt.attempt)
    IN  IF rt.attempt = rt.maxAttempts
        THEN [rt EXCEPT !.pc = "rejected", !.lastError = lastError,
                        !.raised = lastError]
        ELSE [rt EXCEPT !.pc = "sleeping", !.lastError = lastError,
                        !.waits = Append(@, rt.baseDelay
                                            * Pow(2, rt.attempt))]

\* the catch block of retry: the attempt in flight has failed
RetryFail(rt) ==
    LET lastError == AttemptError(rt.attempt)
    IN  IF rt.attempt = rt.maxAttempts
        THEN [rt EXCEPT !.pc = "rejected", !.lastError = lastError,
                        !.raised = lastError]
        ELSE [rt EXCEPT !.pc = "sleeping", !.lastError = lastError,
                        !.waits = Append(@, rt.baseDelay
                                            * Pow(2, rt.attempt - 1))]

\* the value the operation resolves with at the given attempt
AttemptResult(attempt) == Num(attempt)

\* RetrySucceed that sleeps once more before it returns
RetrySucceedSlow(rt) ==
    [rt EXCEPT !.pc = "ready", !.result = AttemptResult(rt.attempt),
               !.waits = Append(@, rt.baseDelay * Pow(2, rt.attempt - 1))]

\* return await operation(): the attempt in flight has resolved
RetrySucceed(rt) ==
    [rt EXCEPT !.pc = "ready", !.result = AttemptResult(rt.attempt)]

BootSucceed ==
    /\ boot.pc = "pending"
    /\ boot' = RetrySucceed(boot)
    /\ UNCHANGED <<connected, store, req, served>>

\* BootFail whose rejection leaves the tool calls in flight running
BootFailKeepServing ==
    /\ boot.pc = "pending"
    /\ IF RetryFail(boot).pc = "rejected"
       THEN /\ boot' = [RetryFail(boot) EXCEPT !.pc = "exited"]
            /\ UNCHANGED <<connected, req>>
       ELSE /\ boot' = RetryFail(boot)
            /\ UNCHANGED <<connected, req>>
    /\ UNCHANGED <<store, served>>

BootFail ==
    /\ boot.pc = "pending"
    /\ IF RetryFail(boot).pc = "rejected"
       THEN \* process.exit(1): the requests in flight die with the process
            /\ boot' = [RetryFail(boot) EXCEPT !.pc = "exited"]
            /\ connected' = FALSE
            /\ req' = [r \in Clients |-> IdleReq]
       ELSE /\ boot' = RetryFail(boot)
            /\ UNCHANGED <<connected, req>>
    /\ UNCHANGED <<store, served>>

BootWake ==
    /\ boot.pc = "sleeping"
    /\ boot' = [boot EXCEPT !.pc = "pending", !.attempt = @ + 1]
    /\ UNCHANGED <<connected, store, req, served>>

\* run(): await this.server.connect(transport)
Connect ==
    /\ Alive
    /\ ~connected
    /\ connected' = TRUE
    /\ UNCHANGED <<boot, store, req, served>>

(***************************************************************************)
(* Tool calls.                                                             *)
(***************************************************************************)
Done(rec, err) ==
    [rec EXCEPT !.pc = "done", !.err = err, !.reply = HandlerReply(err)]

\* the address applyResource uses for the create and for the replace call
CreateNamespace(doc) == Coalesce(NamespaceOf(doc), Str(DefaultNs))
ReplaceNamespace(doc) == Or(NamespaceOf(doc), Str(DefaultNs))

ApplyKey(doc) ==
    Key(parseApiVersion(doc.apiVersion).group,
        parseApiVersion(doc.apiVersion).version,
        CreateNamespace(doc), getResourcePlural(doc.kind),
        doc.metadata.name)

\* the handler's switch up to the first await of the tool's function
StartTool(rec, tool, args, clock, st) ==
    LET r0 == [rec EXCEPT !.tool = tool, !.args = args]
    IN  CASE tool \in ApplyTools ->
                IF ~ValidateArgs(tool, args) THEN Done(r0, ValidationError)
                ELSE LET b == BuildResource(tool, args, clock)
                     IN  IF ~b.ok THEN Done(r0, ValidationError)
                         ELSE [r0 EXCEPT !.pc = "create", !.doc = b.doc,
                                         !.pre = DocAt(st, ApplyKey(b.doc))]
          [] tool = "get_resource_status" ->
                IF ~Truthy(getKindFromType(args.type))
                THEN Done(r0, ValidationError)
                ELSE [r0 EXCEPT !.pc = "get"]
          [] tool = "delete_resource" ->
                IF ~Truthy(getKindFromType(args.type))
                THEN Done(r0, ValidationError)
                ELSE [r0 EXCEPT !.pc = "delete"]
          [] tool = "list_resources" ->
                [r0 EXCEPT
                    !.pc = "list",
                    !.kinds = IF Truthy(getKindFromType(args.type))
                              THEN <<getKindFromType(args.type).s>>
                              ELSE Kinds]
          [] tool = "get_cluster_status" -> [r0 EXCEPT !.pc = "listNode"]
          [] OTHER -> Done(r0, McpError("MethodNotFound"))

Start(r) ==
    /\ Alive
    /\ connected
    /\ served < MaxRequests
    /\ \A q \in Reqs : req[q].pc = "idle"
    /\ \E tool \in Tools : \E args \in ArgsOf(tool) : \E clock \in 0..MaxClock :
          req' = [req EXCEPT ![r] =
                    StartTool(req[r], tool, args, clock, store)]
    /\ served' = served + 1
    /\ UNCHANGED <<boot, connected, store>>

\* the client receives the reply of a create / deploy call that succeeded
\* and sends the same call once more; first keeps the outcome of the first
\* call
Resend(r) ==
    /\ Alive
    /\ req[r].pc = "done"
    /\ req[r].tool \in ApplyTools
    /\ req[r].err = NoErr
    /\ req[r].first = NoPrev
    /\ \E clock \in 0..MaxClock :
          req' = [req EXCEPT ![r] =
                    StartTool([IdleReq EXCEPT !.first =
                                  [tool |-> req[r].tool,
                                   args |-> req[r].args,
                                   doc |-> req[r].doc,
                                   calls |-> req[r].calls,
                                   err |-> req[r].err,
                                   pre |-> req[r].pre,
                                   post |-> req[r].post,
                                   faulted |-> req[r].faulted]],
                              req[r].tool, req[r].args, clock, store)]
    /\ UNCHANGED <<boot, connected, store, served>>

\* the client receives the reply
Complete(r) ==
    /\ Alive
    /\ req[r].pc = "done"
    /\ req' = [req EXCEPT ![r] = IdleReq]
    /\ UNCHANGED <<boot, connected, store, served>>

(***************************************************************************)
(* applyResource: create, and replace on a 409.                            *)
(***************************************************************************)
CreateCall(doc, status) ==
    [method |-> "createNamespacedCustomObject",
     group |-> parseApiVersion(doc.apiVersion).group,
     version |-> parseApiVersion(doc.apiVersion).version,
     namespace |-> CreateNamespace(doc),
     plural |-> getResourcePlural(doc.kind),
     body |-> doc,
     status |-> status]

ReplaceCall(doc, status) ==
    [method |-> "replaceNamespacedCustomObject",
     group |-> parseApiVersion(doc.apiVersion).group,
     version |-> parseApiVersion(doc.apiVersion).version,
     namespace |-> ReplaceNamespace(doc),
     plural |-> getResourcePlural(doc.kind),
     name |-> doc.metadata.name,
     body |-> doc,
     status |-> status]

\* the key a call addresses on the control plane
KeyOfCall(call) ==
    Key(call.group, call.version,
        IF "namespace" \in DOMAIN call THEN call.namespace ELSE Undef,
        call.plural,
        IF "name" \in DOMAIN call THEN call.name
        ELSE call.body.metadata.name)

\* AfterCreate that replaces after any failure of the create
AfterCreateAnyFailure(rec, call, st) ==
    LET r1 == [rec EXCEPT !.calls = Append(@, call)]
    IN  IF call.status = 200
        THEN Done([r1 EXCEPT !.post = DocAt(st, KeyOfCall(call))], NoErr)
        ELSE [r1 EXCEPT !.pc = "replace"]

\* AfterCreate that takes a conflict for success and leaves the resource
\* as it is
AfterCreateConflictOk(rec, call, st) ==
    LET r1 == [rec EXCEPT !.calls = Append(@, call)]
    IN  IF call.status = 200 \/ call.status = Conflict
        THEN Done([r1 EXCEPT !.post = DocAt(st, KeyOfCall(call))], NoErr)
        ELSE Done(r1, KubernetesError(ApiError("create", call.status)))

\* what applyResource does with the outcome of the create call
AfterCreate(rec, call, st) ==
    LET r1 == [rec EXCEPT !.calls = Append(@, call)]
    IN  IF call.status = 200
        THEN Done([r1 EXCEPT !.post = DocAt(st, KeyOfCall(call))], NoErr)
        ELSE IF call.status = Conflict
        THEN [r1 EXCEPT !.pc = "replace"]
        ELSE Done(r1, KubernetesError(ApiError("create", call.status)))

\* AfterReplace that ignores a failure of the replace
AfterReplaceSwallowed(rec, call, st) ==
    LET r1 == [rec EXCEPT !.calls = Append(@, call)]
    IN  Done([r1 EXCEPT !.post = DocAt(st, KeyOfCall(call))], NoErr)

\* AfterReplace that issues the replace again when it failed
AfterReplaceRetry(rec, call, st) ==
    LET r1 == [rec EXCEPT !.calls = Append(@, call)]
    IN  IF call.status = 200
        THEN Done([r1 EXCEPT !.post = DocAt(st, KeyOfCall(call))], NoErr)
        ELSE [r1 EXCEPT !.pc = "replace"]

\* what applyResource does with the outcome of the replace call
AfterReplace(rec, call, st) ==
    LET r1 == [rec EXCEPT !.calls = Append(@, call)]
    IN  IF call.status = 200
        THEN Done([r1 EXCEPT !.post = DocAt(st, KeyOfCall(call))], NoErr)
        ELSE Done(r1, KubernetesError(ApiError("replace", call.status)))

\* the position of the next write in the order the control plane applies
\* the writes of the calls in flight
NextWrite ==
    1 + (CHOOSE n \in {req[q].wseq : q \in Clients} :
            \A q \in Clients : req[q].wseq <= n)

\* the create call of applyResource, answered by a control plane that can
\* fail with the given faults
CreateStep(r, faults) ==
    /\ Alive
    /\ req[r].pc = "create"
    /\ LET key == KeyOfCall(CreateCall(req[r].doc, 200))
           natural == CreateStatus(store, key)
       IN  \E status \in {natural} \cup faults :
              LET call == CreateCall(req[r].doc, status)
                  st == IF status = 200 THEN Put(store, key, call.body)
                        ELSE store
                  rec == [req[r] EXCEPT
                             !.faulted = @ \/ status # natural,
                             !.wseq = IF status = 200 THEN NextWrite ELSE @]
              IN  /\ store' = st
                  /\ req' = [req EXCEPT ![r] = AfterCreate(rec, call, st)]
    /\ UNCHANGED <<boot, connected, served>>

\* the replace call of applyResource
ReplaceStep(r, faults) ==
    /\ Alive
    /\ req[r].pc = "replace"
    /\ LET key == KeyOfCall(ReplaceCall(req[r].doc, 200))
           natural == LookupStatus(store, key)
       IN  \E status \in {natural} \cup faults :
              LET call == ReplaceCall(req[r].doc, status)
                  st == IF status = 200 THEN Put(store, key, call.body)
                        ELSE store
                  rec == [req[r] EXCEPT
                             !.faulted = @ \/ status # natural,
                             !.wseq = IF status = 200 THEN NextWrite ELSE @]
              IN  /\ store' = st
                  /\ req' = [req EXCEPT ![r] = AfterReplace(rec, call, st)]
    /\ UNCHANGED <<boot, connected, served>>

DoCreate(r) == CreateStep(r, CreateFaults)

DoReplace(r) == ReplaceStep(r, ReplaceFaults)

(***************************************************************************)
(* getResourceStatus / getAtlasResource and deleteResource.                *)
(***************************************************************************)
RefCall(verb, kind, args, status) ==
    IF Truthy(args.namespace)
    THEN [method |-> verb \o "NamespacedCustomObject",
          group |-> parseApiVersion(ApiVersion).group,
          version |-> parseApiVersion(ApiVersion).version,
          namespace |-> args.namespace,
          plural |-> getResourcePlural(kind),
          name |-> args.name,
          status |-> status]
    ELSE [method |-> verb \o "ClusterCustomObject",
          group |-> parseApiVersion(ApiVersion).group,
          version |-> parseApiVersion(ApiVersion).version,
          plural |-> getResourcePlural(kind),
          name |-> args.name,
          status |-> status]

\* AfterGet without the special case for 404
AfterGetNo404(rec, call, st) ==
    LET r1 == [rec EXCEPT !.calls = Append(@, call)]
    IN  IF call.status = 200
        THEN Done([r1 EXCEPT !.items = <<DocAt(st, KeyOfCall(call))>>], NoErr)
        ELSE Done(r1, KubernetesError(ApiError("get", call.status)))

AfterGet(rec, call, st) ==
    LET r1 == [rec EXCEPT !.calls = Append(@, call)]
        kind == getKindFromType(rec.args.type).s
    IN  IF call.status = 200
        THEN Done([r1 EXCEPT !.items = <<DocAt(st, KeyOfCall(call))>>], NoErr)
        ELSE IF call.status = NotFound
        THEN Done(r1, ResourceNotFoundError(kind, rec.args.name))
        ELSE Done(r1, KubernetesError(ApiError("get", call.status)))

\* AfterDelete that reports a missing resource as deleted
AfterDeleteLenient(rec, call) ==
    LET r1 == [rec EXCEPT !.calls = Append(@, call)]
    IN  IF call.status = 200 \/ call.status = NotFound
        THEN Done(r1, NoErr)
        ELSE Done(r1, KubernetesError(ApiError("delete", call.status)))

AfterDelete(rec, call) ==
    LET r1 == [rec EXCEPT !.calls = Append(@, call)]
        kind == getKindFromType(rec.args.type).s
    IN  IF call.status = 200
        THEN Done(r1, NoErr)
        ELSE IF call.status = NotFound
        THEN Done(r1, ResourceNotFoundError(kind, rec.args.name))
        ELSE Done(r1, KubernetesError(ApiError("delete", call.status)))

DoGet(r) ==
    /\ Alive
    /\ req[r].pc = "get"
    /\ LET kind == getKindFromType(req[r].args.type).s
           key == KeyOfCall(RefCall("get", kind, req[r].args, 200))
           natural == LookupStatus(store, key)
       IN  \E status \in {natural} \cup LookupFaults :
              req' = [req EXCEPT ![r] =
                        AfterGet([req[r] EXCEPT
                                     !.faulted = @ \/ status # natural],
                                 RefCall("get", kind, req[r].args, status),
                                 store)]
    /\ UNCHANGED <<boot, connected, store, served>>

\* the delete call of deleteResource, answered by a control plane that can
\* fail with the given faults
DeleteStep(r, faults) ==
    /\ Alive
    /\ req[r].pc = "delete"
    /\ LET kind == getKindFromType(req[r].args.type).s
           key == KeyOfCall(RefCall("delete", kind, req[r].args, 200))
           natural == LookupStatus(store, key)
       IN  \E status \in {natural} \cup faults :
              /\ store' = IF status = 200 THEN Remove(store, key) ELSE store
              /\ req' = [req EXCEPT ![r] =
                          AfterDelete([req[r] EXCEPT
                                         !.faulted = @ \/ status # natural],
                                      RefCall("delete", kind, req[r].args,
                                              status))]
    /\ UNCHANGED <<boot, connected, served>>

DoDelete(r) == DeleteStep(r, LookupFaults)

(***************************************************************************)
(* getAtlasResources: one list call per kind, failures logged and skipped. *)
(***************************************************************************)
ListCall(k, namespace, status) ==
    IF Truthy(namespace)
    THEN [method |-> "listNamespacedCustomObject",
          group |-> KroGroup, version |-> V1Alpha1,
          namespace |-> namespace,
          plural |-> toLowerCase(k) \o <<"s">>,
          status |-> status]
    ELSE [method |-> "listClusterCustomObject",
          group |-> KroGroup, version |-> V1Alpha1,
          plural |-> toLowerCase(k) \o <<"s">>,
          status |-> status]

\* response.body.items of a successful list call
ListItems(st, call) ==
    IF "namespace" \in DOMAIN call
    THEN ItemsIn(st, call.group, call.version, call.namespace, call.plural)
    ELSE ItemsOf(st, call.group, call.version, call.plural)

\* ListStep that gives up the items collected so far when a kind fails
ListStepReset(rec, call, st) ==
    IF call.status = 200
    THEN [rec EXCEPT !.calls = Append(@, call),
                     !.kinds = Tail(@),
                     !.items = @ \o ListItems(st, call)]
    ELSE [rec EXCEPT !.calls = Append(@, call),
                     !.kinds = Tail(@),
                     !.items = <<>>,
                     !.warnings = @ + 1]

\* ListStep that lists a kind again when its call failed
ListStepRetry(rec, call, st) ==
    IF call.status = 200
    THEN [rec EXCEPT !.calls = Append(@, call),
                     !.kinds = Tail(@),
                     !.items = @ \o ListItems(st, call)]
    ELSE [rec EXCEPT !.calls = Append(@, call),
                     !.warnings = @ + 1]

\* one iteration of the loop of getAtlasResources
ListStep(rec, call, st) ==
    IF call.status = 200
    THEN [rec EXCEPT !.calls = Append(@, call),
                     !.kinds = Tail(@),
                     !.items = @ \o ListItems(st, call)]
    ELSE [rec EXCEPT !.calls = Append(@, call),
                     !.kinds = Tail(@),
                     !.warnings = @ + 1]

DoList(r) ==
    /\ Alive
    /\ req[r].pc = "list"
    /\ \E status \in {200} \cup ListFaults :
          LET call == ListCall(Head(req[r].kinds), req[r].args.namespace,
                               status)
              rec == ListStep([req[r] EXCEPT !.faulted = @ \/ status # 200],
                              call, store)
          IN  req' = [req EXCEPT ![r] =
                        IF rec.kinds = <<>> THEN Done(rec, NoErr) ELSE rec]
    /\ UNCHANGED <<boot, connected, store, served>>

(***************************************************************************)
(* getClusterStatus: listNode, listNamespace, getAllAtlasResourceCounts.   *)
(***************************************************************************)
CoreCall(method, status) == [method |-> method, status |-> status]

DoListNode(r) ==
    /\ Alive
    /\ req[r].pc = "listNode"
    /\ \E status \in {200} \cup ListFaults :
          LET rec == [req[r] EXCEPT
                         !.calls = Append(@, CoreCall("listNode", status)),
                         !.faulted = @ \/ status # 200]
          IN  req' = [req EXCEPT ![r] =
                        IF status = 200
                        THEN [rec EXCEPT !.pc = "listNamespace"]
                        ELSE Done(rec, KubernetesError(
                                          ApiError("listNode", status)))]
    /\ UNCHANGED <<boot, connected, store, served>>

DoListNamespace(r) ==
    /\ Alive
    /\ req[r].pc = "listNamespace"
    /\ \E status \in {200} \cup ListFaults :
          LET rec == [req[r] EXCEPT
                         !.calls = Append(@, CoreCall("listNamespace",
                                                      status)),
                         !.faulted = @ \/ status # 200]
          IN  req' = [req EXCEPT ![r] =
                        IF status = 200
                        THEN [rec EXCEPT !.pc = "count", !.kinds = Kinds]
                        ELSE Done(rec, KubernetesError(
                                          ApiError("listNamespace", status)))]
    /\ UNCHANGED <<boot, connected, store, served>>

\* counts[key] || 0 on the entries written so far
CountAt(counts, key) ==
    IF \E i \in 1..Len(counts) : counts[i].key = key
    THEN counts[CHOOSE i \in 1..Len(counts) :
                    /\ counts[i].key = key
                    /\ \A j \in 1..Len(counts) :
                          counts[j].key = key => j <= i].n
    ELSE 0

\* the object getAllAtlasResourceCounts returns
AtlasResourceCounts(counts) ==
    [workspaces |->
        CountAt(counts, <<"w", "o", "r", "k", "s", "p", "a", "c", "e", "s">>),
     applications |->
        CountAt(counts, <<"w", "e", "b", "a", "p", "p", "l", "i", "c", "a",
                          "t", "i", "o", "n", "s">>),
     infrastructure |->
        CountAt(counts, <<"i", "n", "f", "r", "a", "s", "t", "r", "u", "c",
                          "t", "u", "r", "e", "s">>),
     topics |-> CountAt(counts, <<"t", "o", "p", "i", "c", "s">>)]

\* CountStep that keeps the resources of the kinds counted before
CountStepCarry(rec, call, st) ==
    LET kind == Head(rec.kinds)
        one == ListStep(rec, call, st)
    IN  [one EXCEPT !.counts =
                        Append(@, [key |-> toLowerCase(kind) \o <<"s">>,
                                   n |-> Len(one.items)])]

\* one iteration of the loop of getAllAtlasResourceCounts:
\* getAtlasResources(kind) and the length of its result
CountStep(rec, call, st) ==
    LET kind == Head(rec.kinds)
        one == ListStep([rec EXCEPT !.items = <<>>], call, st)
    IN  [one EXCEPT !.counts =
                        Append(@, [key |-> toLowerCase(kind) \o <<"s">>,
                                   n |-> Len(one.items)]),
                    !.items = <<>>]

DoCount(r) ==
    /\ Alive
    /\ req[r].pc = "count"
    /\ \E status \in {200} \cup ListFaults :
          LET call == ListCall(Head(req[r].kinds), Undef, status)
              rec == CountStep([req[r] EXCEPT !.faulted = @ \/ status # 200],
                               call, store)
          IN  req' = [req EXCEPT ![r] =
                        IF rec.kinds = <<>>
                        THEN Done([rec EXCEPT !.items =
                                      <<[atlasResources |->
                                            AtlasResourceCounts(rec.counts)]>>],
                                  NoErr)
                        ELSE rec]
    /\ UNCHANGED <<boot, connected, store, served>>

(***************************************************************************)
(* Specification.                                                          *)
(***************************************************************************)
Next ==
    \/ BootSucceed
    \/ BootFail
    \/ BootWake
    \/ Connect
    \/ \E r \in Reqs : Start(r)
    \/ \E r \in Reqs : Resend(r)
    \/ \E r \in Reqs : DoCreate(r)
    \/ \E r \in Reqs : DoReplace(r)
    \/ \E r \in Reqs : DoGet(r)
    \/ \E r \in Reqs : DoDelete(r)
    \/ \E r \in Reqs : DoList(r)
    \/ \E r \in Reqs : DoListNode(r)
    \/ \E r \in Reqs : DoListNamespace(r)
    \/ \E r \in Reqs : DoCount(r)
    \/ \E r \in Reqs : Complete(r)

Spec == Init /\ [][Next]_vars

(***************************************************************************)
(* The functions of utils.ts called on their own, as their unit tests call *)
(* them: retry with an operation that may fail at every attempt, and the   *)
(* validators on names and replica counts.  The retry state is held in     *)
(* boot and the outcome of a validator call in req[1].                     *)
(***************************************************************************)
BaseDelays == {10, 1000}

NameChars == {"a", "0", "-", "A", "."}
ShortNames == UNION {[1..n -> NameChars] : n \in 0..MaxLen}
LongNames ==
    UNION {{Repeat("a", n),
            Repeat("a", n - 1) \o <<"-">>,
            <<"-">> \o Repeat("a", n - 1),
            Repeat("a", n - 2) \o <<"-", "0">>,
            Repeat("a", n - 1) \o <<"A">>} :
           n \in (MaxNameLength - 1)..(MaxNameLength + 2)}
NameValues == {Str(n) : n \in ShortNames \cup LongNames}

ReplicaValues ==
    {Num2(k) : k \in (-2 * MaxOver)..(2 * MaxReplicas + 2 * MaxOver)}
    \cup {Undef, Str(<<"3">>)}

UtilInit ==
    /\ boot \in {RetryStart(m, d) : m \in 1..MaxAttempts, d \in BaseDelays}
    /\ connected = FALSE
    /\ store = {}
    /\ req = [r \in Clients |-> IdleReq]
    /\ served = 0

\* the attempt in flight rejects; retry is called without the constructor's
\* catch
RetryAttemptFails ==
    /\ boot.pc = "pending"
    /\ boot' = RetryFail(boot)
    /\ UNCHANGED <<connected, store, req, served>>

\* the outcome of a call fn(arg) that returns when ok and throws
\* ValidationError otherwise
UnitCall(fn, arg, ok) ==
    Done([IdleReq EXCEPT !.tool = fn, !.args = arg],
         IF ok THEN NoErr ELSE ValidationError)

CallValidateResourceName ==
    /\ req[1].pc = "idle"
    /\ \E name \in NameValues :
          req' = [req EXCEPT ![1] =
                    UnitCall("validateResourceName", name,
                             validateResourceName(name))]
    /\ UNCHANGED <<boot, connected, store, served>>

CallValidateNamespace ==
    /\ req[1].pc = "idle"
    /\ \E namespace \in NameValues :
          req' = [req EXCEPT ![1] =
                    UnitCall("validateNamespace", namespace,
                             validateNamespace(namespace))]
    /\ UNCHANGED <<boot, connected, store, served>>

CallValidateReplicas ==
    /\ req[1].pc = "idle"
    /\ \E replicas \in ReplicaValues :
          req' = [req EXCEPT ![1] =
                    UnitCall("validateReplicas", replicas,
                             validateReplicas(replicas))]
    /\ UNCHANGED <<boot, connected, store, served>>

BuilderKinds == {Kinds[i] : i \in 1..Len(Kinds)}
BuilderSpecs ==
    {SpecOf("create_workspace", SeedWsArgs),
     SpecOf("deploy_webapp", SeedWebArgs),
     SpecOf("create_topic", SeedTopicArgs)}

\* createAtlasResource called twice with the same arguments, at the clock
\* values clock1 and clock2
CallCreateAtlasResource ==
    /\ req[1].pc = "idle"
    /\ \E kind \in BuilderKinds, name \in NameInputs,
          namespace \in {Undef} \cup NsInputs, spec \in BuilderSpecs,
          clock1 \in 0..MaxClock, clock2 \in 0..MaxClock :
          LET b1 == createAtlasResource(kind, name, namespace, spec, clock1)
              b2 == createAtlasResource(kind, name, namespace, spec, clock2)
              rec == [IdleReq EXCEPT
                         !.tool = "createAtlasResource",
                         !.args = [kind |-> kind, name |-> name,
                                   namespace |-> namespace, spec |-> spec],
                         !.items = IF b1.ok /\ b2.ok
                                   THEN <<b1.doc, b2.doc>> ELSE <<>>]
          IN  req' = [req EXCEPT ![1] =
                        Done(rec, IF b1.ok /\ b2.ok THEN NoErr
                                  ELSE ValidationError)]
    /\ UNCHANGED <<boot, connected, store, served>>

PluralKinds ==
    BuilderKinds \cup ObjectPrototypeNames
    \cup {<<"C", "u", "s", "t", "o", "m", "R", "e", "s", "o", "u", "r", "c",
            "e">>,
          <<"t", "o", "p", "i", "c">>,
          <<>>}

CallGetResourcePlural ==
    /\ req[1].pc = "idle"
    /\ \E kind \in PluralKinds :
          req' = [req EXCEPT ![1] =
                    Done([IdleReq EXCEPT !.tool = "getResourcePlural",
                                         !.args = Str(kind),
                                         !.items = <<getResourcePlural(kind)>>],
                         NoErr)]
    /\ UNCHANGED <<boot, connected, store, served>>

ApiVersionChars == {"v", "1", "/"}
ApiVersionValues ==
    UNION {[1..n -> ApiVersionChars] : n \in 0..MaxLen} \cup {ApiVersion}

CallParseApiVersion ==
    /\ req[1].pc = "idle"
    /\ \E apiVersion \in ApiVersionValues :
          req' = [req EXCEPT ![1] =
                    Done([IdleReq EXCEPT !.tool = "parseApiVersion",
                                         !.args = Str(apiVersion),
                                         !.items =
                                             <<parseApiVersion(apiVersion)>>],
                         NoErr)]
    /\ UNCHANGED <<boot, connected, store, served>>

UtilNext ==
    \/ CallGetResourcePlural
    \/ CallParseApiVersion
    \/ BootSucceed
    \/ RetryAttemptFails
    \/ BootWake
    \/ CallValidateResourceName
    \/ CallValidateNamespace
    \/ CallValidateReplicas
    \/ CallCreateAtlasResource

UtilSpec == UtilInit /\ [][UtilNext]_vars

(***************************************************************************)
(* Two create / deploy calls for the same resource in flight at once: the  *)
(* handler is async, so the steps of two invocations interleave at every   *)
(* await.  The bootstrap has succeeded, the transport is connected and the *)
(* control plane rejects a call only when the store makes it (409 on a     *)
(* create of an existing resource).                                        *)
(***************************************************************************)
ConcInit ==
    /\ boot = [RetryStart(BootMaxAttempts, BootBaseDelay) EXCEPT
                  !.pc = "ready"]
    /\ connected = TRUE
    /\ store \in InitialStores
    /\ req = [r \in Clients |-> IdleReq]
    /\ served = 0

\* a create / deploy call arrives whose fields are valid and that targets
\* the resource of the call already in flight, if there is one
ConcStart(r) ==
    /\ req[r].pc = "idle"
    /\ \E tool \in ApplyTools : \E args \in ArgsOf(tool) :
       \E clock \in 0..MaxClock :
          LET rec == StartTool(req[r], tool, args, clock, store)
          IN  /\ rec.pc = "create"
              /\ \A q \in Clients \ {r} :
                    req[q].pc # "idle"
                    => /\ req[q].tool = tool
                       /\ ApplyKey(req[q].doc) = ApplyKey(rec.doc)
              /\ req' = [req EXCEPT ![r] = rec]
    /\ served' = served + 1
    /\ UNCHANGED <<boot, connected, store>>

ConcCreate(r) == CreateStep(r, {})

ConcReplace(r) == ReplaceStep(r, {})

ConcNext ==
    \/ \E r \in Clients : ConcStart(r)
    \/ \E r \in Clients : ConcCreate(r)
    \/ \E r \in Clients : ConcReplace(r)

ConcSpec == ConcInit /\ [][ConcNext]_vars

(***************************************************************************)
(* A create / deploy call in slot 1 in flight together with delete calls   *)
(* for the same resource in slot 2.  The control plane rejects a call only *)
(* when the store makes it: 409 on a create of an existing resource, 404   *)
(* on a replace or a delete of a missing one.                              *)
(***************************************************************************)
\* a create / deploy call whose fields are valid arrives
RaceStartApply ==
    /\ req[1].pc = "idle"
    /\ req[1].tool = "none"
    /\ \E tool \in ApplyTools : \E args \in ArgsOf(tool) :
       \E clock \in 0..MaxClock :
          LET rec == StartTool(req[1], tool, args, clock, store)
          IN  /\ rec.pc = "create"
              /\ req' = [req EXCEPT ![1] = rec]
    /\ UNCHANGED <<boot, connected, store, served>>

\* a delete call arrives that addresses the resource of the create /
\* deploy call
RaceStartDelete ==
    /\ req[1].pc # "idle"
    /\ req[2].pc = "idle"
    /\ served < MaxRequests + 1
    /\ \E args \in ArgsOf("delete_resource") :
          LET rec == StartTool(req[2], "delete_resource", args, 0, store)
          IN  /\ rec.pc = "delete"
              /\ KeyOfCall(RefCall("delete", getKindFromType(args.type).s,
                                    args, 200))
                 = ApplyKey(req[1].doc)
              /\ req' = [req EXCEPT ![2] = rec]
    /\ served' = served + 1
    /\ UNCHANGED <<boot, connected, store>>

RaceCreate == CreateStep(1, {})

RaceReplace == ReplaceStep(1, {})

RaceDelete == DeleteStep(2, {})

\* the client of slot 2 receives the reply of its delete call
RaceComplete == Complete(2)

RaceNext ==
    \/ RaceStartApply
    \/ RaceStartDelete
    \/ RaceCreate
    \/ RaceReplace
    \/ RaceDelete
    \/ RaceComplete

RaceSpec == ConcInit /\ [][RaceNext]_vars

(***************************************************************************)
(* Properties.                                                             *)
(***************************************************************************)
IsCreate(call) == call.method = "createNamespacedCustomObject"
IsReplace(call) == call.method = "replaceNamespacedCustomObject"
IsMutation(call) ==
    call.method \in {"createNamespacedCustomObject",
                     "replaceNamespacedCustomObject",
                     "deleteNamespacedCustomObject",
                     "deleteClusterCustomObject"}
Mutations(calls) == Cardinality({i \in 1..Len(calls) : IsMutation(calls[i])})

ApplyDone(q) == q.pc = "done" /\ q.tool \in ApplyTools

\* C1: when the create call of Apply is rejected with 409, exactly one
\* replace call follows, addressed to the same group, version, namespace,
\* plural and name as the create and carrying the same document, and Apply
\* reports success if and only if that replace succeeds.
C1_ReplaceOnConflict ==
    \A r \in Reqs :
        LET q == req[r] IN
        (ApplyDone(q) /\ Len(q.calls) >= 1 /\ q.calls[1].status = Conflict)
        => /\ Len(q.calls) = 2
           /\ IsCreate(q.calls[1])
           /\ IsReplace(q.calls[2])
           /\ q.calls[2].group = q.calls[1].group
           /\ q.calls[2].version = q.calls[1].version
           /\ q.calls[2].namespace = q.calls[1].namespace
           /\ q.calls[2].plural = q.calls[1].plural
           /\ q.calls[2].name = q.calls[1].body.metadata.name
           /\ q.calls[2].body = q.calls[1].body
           /\ (q.err = NoErr <=> q.calls[2].status = 200)
           /\ (q.reply.isError <=> q.calls[2].status # 200)

C1_Witness ==
    \E r \in Reqs :
        /\ ApplyDone(req[r])
        /\ Len(req[r].calls) = 2
        /\ req[r].calls[1].status = Conflict
        /\ req[r].calls[2].status = 200
        /\ req[r].tool = "create_workspace"
        /\ req[r].err = NoErr

\* C2: a create / deploy request that ends in success has issued exactly one
\* mutation call (create succeeded) or exactly two (create conflicted,
\* replace succeeded); one that ends in ValidationError has issued none; no
\* request issues more than two on any path.
C2_MutationCount ==
    \A r \in Reqs :
        LET q == req[r] IN
        q.tool \in ApplyTools
        => /\ Mutations(q.calls) <= 2
           /\ Mutations(q.calls) = Len(q.calls)
           /\ (q.pc = "done" /\ q.err = NoErr)
              => \/ /\ Mutations(q.calls) = 1
                    /\ IsCreate(q.calls[1]) /\ q.calls[1].status = 200
                 \/ /\ Mutations(q.calls) = 2
                    /\ IsCreate(q.calls[1]) /\ q.calls[1].status = Conflict
                    /\ IsReplace(q.calls[2]) /\ q.calls[2].status = 200
           /\ (q.pc = "done" /\ q.err = ValidationError)
              => Mutations(q.calls) = 0

C2_Witness ==
    \E r \in Reqs :
        /\ ApplyDone(req[r])
        /\ req[r].tool = "deploy_webapp"
        /\ req[r].err = NoErr
        /\ Mutations(req[r].calls) = 2

\* the rule of some field of the request is violated
SomeFieldFails(tool, args) ==
    CASE tool = "create_workspace" ->
            ~validateResourceName(args.name)
      [] tool = "deploy_webapp" ->
            \/ ~validateResourceName(args.name)
            \/ ~validateNamespace(args.namespace)
            \/ ~validateImageReference(args.image)
            \/ ~validateHostname(args.host)
            \/ (args.replicas # Undef /\ ~validateReplicas(args.replicas))
            \/ (args.env # Undef /\ ~validateEnvironmentVariables(args.env))
      [] tool = "create_infrastructure" ->
            \/ ~validateResourceName(args.name)
            \/ ~validateNamespace(args.namespace)
            \/ ~validateResourceName(args.database)
      [] tool = "create_topic" ->
            \/ ~validateResourceName(args.name)
            \/ ~validateNamespace(args.namespace)

\* C3: in each of the four create / deploy operations, a request of which
\* any field fails its rule ends in ValidationError with no control-plane
\* call issued, whichever field it is and whatever the other fields are.
C3_ValidationBeforeCalls ==
    \A r \in Reqs :
        LET q == req[r] IN
        (q.tool \in ApplyTools /\ SomeFieldFails(q.tool, q.args))
        => /\ q.pc = "done"
           /\ q.err = ValidationError
           /\ q.calls = <<>>

\* only the hostname, checked after three fields that pass, is invalid
C3_Witness ==
    \E r \in Reqs :
        /\ req[r].tool = "deploy_webapp"
        /\ req[r].pc = "done"
        /\ validateResourceName(req[r].args.name)
        /\ validateNamespace(req[r].args.namespace)
        /\ validateImageReference(req[r].args.image)
        /\ ~validateHostname(req[r].args.host)
        /\ req[r].err = ValidationError
        /\ req[r].calls = <<>>

\* C4: a create failure that is not a conflict ends Apply with a
\* KubernetesError carrying the error of the create call and no replace is
\* issued; a failure of the replace ends Apply with a KubernetesError
\* carrying the error of the replace call and no further call is issued.
C4_ApplyFailures ==
    \A r \in Reqs :
        LET q == req[r] IN
        q.tool \in ApplyTools
        => /\ (Len(q.calls) >= 1 /\ q.calls[1].status \notin {200, Conflict})
              => /\ q.pc = "done"
                 /\ Len(q.calls) = 1
                 /\ q.err = KubernetesError(
                               ApiError("create", q.calls[1].status))
           /\ (Len(q.calls) >= 2 /\ q.calls[2].status # 200)
              => /\ q.pc = "done"
                 /\ Len(q.calls) = 2
                 /\ q.err = KubernetesError(
                               ApiError("replace", q.calls[2].status))

C4_Witness ==
    \E r \in Reqs :
        /\ ApplyDone(req[r])
        /\ Len(req[r].calls) = 2
        /\ req[r].calls[2].status = Conflict
        /\ req[r].err.type = "KubernetesError"

\* C5: applying a Workspace issues its create call, and any replace call,
\* with cluster-scoped addressing: no namespace in the addressed path.
C5_WorkspaceClusterScoped ==
    \A r \in Reqs :
        req[r].tool = "create_workspace"
        => \A i \in 1..Len(req[r].calls) :
              "namespace" \notin DOMAIN req[r].calls[i]

\* C5: a Workspace is applied at the 'default' namespace of the namespaced
\* API (the state the claim excludes)
C5_Observed ==
    \E r \in Reqs :
        /\ req[r].tool = "create_workspace"
        /\ Len(req[r].calls) >= 1
        /\ req[r].calls[1].namespace = Str(DefaultNs)

\* two documents that differ at most in the creation-timestamp annotation
EqExceptTimestamp(d1, d2) ==
    /\ d1 # NoDoc
    /\ d2 # NoDoc
    /\ [d1 EXCEPT !.metadata.annotations.createdAt = 0]
       = [d2 EXCEPT !.metadata.annotations.createdAt = 0]

\* the same create / deploy call is sent twice in a row, the resource did
\* not exist before the first, and the control plane injected no fault
AppliedTwice(q) ==
    /\ ApplyDone(q)
    /\ q.first # NoPrev
    /\ q.first.tool = q.tool
    /\ q.first.args = q.args
    /\ q.first.pre = NoDoc
    /\ ~q.first.faulted
    /\ ~q.faulted

\* C6: applying the same create / deploy request twice in sequence, with no
\* other writer and a control plane that fails only with 'already exists':
\* the first call issues one create, the second one create (rejected as a
\* conflict) and one replace, both report success, and the document stored
\* after the second call equals the one stored after the first except for
\* the creation-timestamp annotation.
C6_ApplyTwice ==
    \A r \in Reqs :
        LET q == req[r] IN
        /\ (/\ ApplyDone(q)
            /\ ~SomeFieldFails(q.tool, q.args)
            /\ q.pre = NoDoc
            /\ ~q.faulted)
           => /\ Len(q.calls) = 1
              /\ IsCreate(q.calls[1]) /\ q.calls[1].status = 200
              /\ q.err = NoErr
              /\ q.post = q.doc
        /\ AppliedTwice(q)
           => /\ Len(q.first.calls) = 1
              /\ IsCreate(q.first.calls[1])
              /\ q.first.calls[1].status = 200
              /\ q.first.err = NoErr
              /\ Len(q.calls) = 2
              /\ IsCreate(q.calls[1]) /\ q.calls[1].status = Conflict
              /\ IsReplace(q.calls[2]) /\ q.calls[2].status = 200
              /\ q.err = NoErr
              /\ EqExceptTimestamp(q.first.post, q.post)
              /\ q.post = DocAt(store, ApplyKey(q.doc))

\* the second call was built at another clock value than the first
C6_Witness ==
    \E r \in Reqs :
        /\ AppliedTwice(req[r])
        /\ req[r].tool = "deploy_webapp"
        /\ req[r].post # req[r].first.post

ListDone(q) == q.pc = "done" /\ q.tool = "list_resources"

\* the items of the calls i..Len(calls) that succeeded, in call order
RECURSIVE ItemsOfSucceeded(_, _, _)
ItemsOfSucceeded(st, calls, i) ==
    IF i > Len(calls) THEN <<>>
    ELSE (IF calls[i].status = 200 THEN ListItems(st, calls[i]) ELSE <<>>)
         \o ItemsOfSucceeded(st, calls, i + 1)

Failed(calls) == {i \in 1..Len(calls) : calls[i].status # 200}

\* C7: List never raises because of a failing per-kind list call: whatever
\* subset of the list calls fails, the result is the concatenation of the
\* items of the kinds whose call succeeded, and each failed kind contributes
\* no item and one warning.
C7_ListTolerant ==
    \A r \in Reqs :
        LET q == req[r] IN
        ListDone(q)
        => /\ q.err = NoErr
           /\ ~q.reply.isError
           /\ q.items = ItemsOfSucceeded(store, q.calls, 1)
           /\ q.warnings = Cardinality(Failed(q.calls))

\* a failed kind between two kinds that returned an item each
C7_Witness ==
    \E r \in Reqs :
        /\ ListDone(req[r])
        /\ Len(req[r].calls) = 4
        /\ req[r].calls[1].status = 200
        /\ req[r].calls[2].status # 200
        /\ req[r].calls[3].status = 200
        /\ req[r].calls[4].status = 200
        /\ Len(req[r].items) >= 2
        /\ req[r].warnings = 1

IsGet(call) ==
    call.method \in {"getNamespacedCustomObject", "getClusterCustomObject"}
IsDelete(call) ==
    call.method \in {"deleteNamespacedCustomObject",
                     "deleteClusterCustomObject"}

\* a get / delete request that names a known resource type has finished
RefDone(q, tool) ==
    /\ q.pc = "done"
    /\ q.tool = tool
    /\ Truthy(getKindFromType(q.args.type))

\* C8: Get resource status issues exactly one lookup call; a 404 answer
\* results in ResourceNotFoundError carrying the kind and the name, never
\* KubernetesError; every other failure results in KubernetesError, never
\* ResourceNotFoundError.
C8_GetErrors ==
    \A r \in Reqs :
        LET q == req[r] IN
        RefDone(q, "get_resource_status")
        => /\ Len(q.calls) = 1
           /\ IsGet(q.calls[1])
           /\ q.calls[1].name = q.args.name
           /\ (q.calls[1].status = NotFound
               => q.err = ResourceNotFoundError(
                             getKindFromType(q.args.type).s, q.args.name))
           /\ (q.calls[1].status \notin {200, NotFound}
               => q.err.type = "KubernetesError")
           /\ (q.calls[1].status = 200 => q.err = NoErr)

C8_Witness ==
    \E r \in Reqs :
        /\ RefDone(req[r], "get_resource_status")
        /\ req[r].calls[1].status = NotFound
        /\ req[r].err.type = "ResourceNotFoundError"
        /\ req[r].args.type = "topic"

\* C9: Delete resource issues exactly one delete call, for the named
\* resource, and no other mutation; a 404 answer results in
\* ResourceNotFoundError with the kind and the name, every other failure in
\* KubernetesError, and success is reported only when the delete call
\* succeeded.
C9_DeleteErrors ==
    \A r \in Reqs :
        LET q == req[r] IN
        RefDone(q, "delete_resource")
        => /\ Len(q.calls) = 1
           /\ IsDelete(q.calls[1])
           /\ q.calls[1].name = q.args.name
           /\ q.calls[1].plural
              = getResourcePlural(getKindFromType(q.args.type).s)
           /\ (q.calls[1].status = NotFound
               => q.err = ResourceNotFoundError(
                             getKindFromType(q.args.type).s, q.args.name))
           /\ (q.calls[1].status \notin {200, NotFound}
               => q.err.type = "KubernetesError")
           /\ (q.err = NoErr <=> q.calls[1].status = 200)
           /\ (q.reply.isError <=> q.calls[1].status # 200)

C9_Witness ==
    \E r \in Reqs :
        /\ RefDone(req[r], "delete_resource")
        /\ req[r].calls[1].status = NotFound
        /\ req[r].err.type = "ResourceNotFoundError"
        /\ req[r].args.type = "topic"

\* C10: no tool call is handled before a bootstrap read has succeeded.
C10_BootstrapFirst ==
    \A r \in Reqs : req[r].pc # "idle" => boot.pc = "ready"

\* C11: retry with an operation that fails at every attempt invokes it
\* maxAttempts times, waits baseDelay * 2^(k-1) after the k-th failure for
\* every k < maxAttempts, never waits after the last attempt, and raises the
\* error of the last attempt; retry(op, 3, 1000) makes 3 attempts with the
\* waits 1000 and 2000.
C11_RetryBackoff ==
    /\ boot.pc = "sleeping" => boot.attempt < boot.maxAttempts
    /\ \A k \in 1..Len(boot.waits) :
          boot.waits[k] = boot.baseDelay * 2^(k - 1)
    /\ boot.pc \in {"rejected", "exited"}
       => /\ boot.attempt = boot.maxAttempts
          /\ Len(boot.waits) = boot.maxAttempts - 1
          /\ boot.raised = AttemptError(boot.maxAttempts)
          /\ (boot.maxAttempts = 3 /\ boot.baseDelay = 1000)
             => boot.waits = <<1000, 2000>>

C11_Witness ==
    /\ boot.pc = "rejected"
    /\ boot.maxAttempts = 3
    /\ boot.baseDelay = 1000
    /\ boot.attempt = 3
    /\ boot.waits = <<1000, 2000>>

\* C12: when every bootstrap attempt has failed the process has exited: the
\* transport is gone, no tool call is in flight or served afterwards, and
\* no caller holds a reply carrying the bootstrap failure.
C12_ExitStopsServing ==
    /\ (boot.attempt = BootMaxAttempts
        /\ boot.lastError = AttemptError(BootMaxAttempts))
       => boot.pc = "exited"
    /\ boot.pc = "exited"
       => /\ boot.attempt = BootMaxAttempts
          /\ ~connected
          /\ \A r \in Clients :
                /\ req[r].pc = "idle"
                /\ req[r].reply = NoReply
                /\ req[r].err = NoErr

\* the process exits after it has accepted a tool call
C12_Witness ==
    /\ boot.pc = "exited"
    /\ served = 1
    /\ store # {}

\* both calls of a pair of create / deploy calls have finished on the same
\* resource
BothApplied(a, b) ==
    /\ a # b
    /\ ApplyDone(req[a])
    /\ ApplyDone(req[b])
    /\ req[a].doc # NoDoc
    /\ req[b].doc # NoDoc
    /\ ApplyKey(req[a].doc) = ApplyKey(req[b].doc)

\* C13: two Apply calls for the same kind, namespace and name in flight at
\* once, on a control plane that fails only with 'already exists': under
\* every interleaving both report success, each has had one mutation call
\* applied, the resource exists afterwards and the stored document is the
\* one of the call whose mutation the control plane applied last.
C13_LastWriteWins ==
    \A a \in Clients : \A b \in Clients :
        (BothApplied(a, b) /\ req[a].wseq <= req[b].wseq)
        => /\ req[a].err = NoErr
           /\ req[b].err = NoErr
           /\ ~req[a].reply.isError
           /\ ~req[b].reply.isError
           /\ 0 < req[a].wseq
           /\ req[a].wseq < req[b].wseq
           /\ Has(store, ApplyKey(req[b].doc))
           /\ DocAt(store, ApplyKey(req[b].doc)) = req[b].doc

\* both calls started while the resource was absent; the second document,
\* which differs from the first, overwrote it
C13_Witness ==
    /\ BothApplied(1, 2)
    /\ req[1].pre = NoDoc
    /\ req[2].pre = NoDoc
    /\ req[1].wseq < req[2].wseq
    /\ req[1].doc.spec # req[2].doc.spec
    /\ Len(req[2].calls) = 2
    /\ DocAt(store, ApplyKey(req[1].doc)) = req[2].doc

\* what identifies a control-plane call within one request
CallId(call) ==
    <<call.method,
      IF "plural" \in DOMAIN call THEN call.plural ELSE <<>> >>

\* C14: within one request no control-plane call is issued a second time,
\* whatever the first returned: each create, replace, get, delete, listNode
\* and listNamespace call at most once and the list call of each kind at
\* most once.
C14_NoReissue ==
    \A r \in Reqs :
        \A i \in 1..Len(req[r].calls) : \A j \in 1..Len(req[r].calls) :
            i # j => CallId(req[r].calls[i]) # CallId(req[r].calls[j])

\* a cluster status request went on after the list call of a kind failed
C14_Witness ==
    \E r \in Reqs :
        /\ req[r].pc = "done"
        /\ req[r].tool = "get_cluster_status"
        /\ Len(req[r].calls) = 6
        /\ req[r].calls[3].status # 200
        /\ req[r].calls[4].status = 200

\* the name or the namespace a get / delete / list request carries violates
\* the name rule
RefFieldFails(tool, args) ==
    \/ /\ tool \in {"get_resource_status", "delete_resource"}
       /\ ~validateResourceName(args.name)
    \/ /\ tool \in {"get_resource_status", "delete_resource",
                     "list_resources"}
       /\ args.namespace # Undef
       /\ ~validateNamespace(args.namespace)

\* C15: a get resource status, delete resource or list resources request
\* whose name or namespace violates the name rule ends in ValidationError
\* with no control-plane call issued.
C15_RefValidated ==
    \A r \in Reqs :
        LET q == req[r] IN
        (q.pc # "idle" /\ RefFieldFails(q.tool, q.args))
        => /\ q.calls = <<>>
           /\ q.pc = "done" => q.err = ValidationError

\* the cluster status request has passed listNode and listNamespace and has
\* finished
CountsDone(q) ==
    /\ q.pc = "done"
    /\ q.tool = "get_cluster_status"
    /\ Len(q.calls) >= 2
    /\ q.calls[1].status = 200
    /\ q.calls[2].status = 200

\* the count the i-th call of the request stands for
CountOfCall(st, calls, i) ==
    IF calls[i].status = 200 THEN Len(ListItems(st, calls[i])) ELSE 0

\* C16: count-by-kind issues one list call per kind and returns a count for
\* each of the four kinds: 0 for a kind whose list call failed and the
\* number of listed items for every other kind; a failing list call never
\* makes the cluster status request fail.
C16_CountsTolerant ==
    \A r \in Reqs :
        LET q == req[r] IN
        CountsDone(q)
        => /\ q.err = NoErr
           /\ ~q.reply.isError
           /\ Len(q.calls) = 2 + Len(Kinds)
           /\ \A i \in 1..Len(Kinds) :
                 q.calls[2 + i].plural = getResourcePlural(Kinds[i])
           /\ q.items =
                 <<[atlasResources |->
                      [workspaces |-> CountOfCall(store, q.calls, 3),
                       applications |-> CountOfCall(store, q.calls, 4),
                       infrastructure |-> CountOfCall(store, q.calls, 5),
                       topics |-> CountOfCall(store, q.calls, 6)]]>>

\* the list of workspaces fails, the later kinds are still counted
C16_Witness ==
    \E r \in Reqs :
        /\ CountsDone(req[r])
        /\ req[r].calls[3].status # 200
        /\ req[r].calls[4].status = 200
        /\ req[r].calls[5].status # 200
        /\ req[r].items[1].atlasResources.workspaces = 0
        /\ req[r].items[1].atlasResources.applications = 1
        /\ req[r].items[1].atlasResources.topics = 1

\* createAtlasResource has been called twice on the arguments of q
BuiltTwice(q) == q.pc = "done" /\ q.tool = "createAtlasResource"

\* C17: for every valid (kind, name, namespace, spec), two calls of
\* createAtlasResource with these arguments return documents equal in
\* apiVersion, kind, name, namespace, labels, spec and in every annotation
\* but the creation timestamp; for invalid arguments both calls throw.
C17_BuilderDeterministic ==
    \A r \in Reqs :
        LET q == req[r] IN
        BuiltTwice(q)
        => IF /\ validateResourceName(q.args.name)
              /\ (Truthy(q.args.namespace)
                  => validateNamespace(q.args.namespace))
           THEN /\ q.err = NoErr
                /\ Len(q.items) = 2
                /\ LET d1 == q.items[1]
                       d2 == q.items[2]
                   IN  /\ DOMAIN d1 = DOMAIN d2
                       /\ d1.apiVersion = d2.apiVersion
                       /\ d1.kind = d2.kind
                       /\ DOMAIN d1.metadata = DOMAIN d2.metadata
                       /\ d1.metadata.name = d2.metadata.name
                       /\ NamespaceOf(d1) = NamespaceOf(d2)
                       /\ d1.metadata.labels = d2.metadata.labels
                       /\ d1.spec = d2.spec
                       /\ DOMAIN d1.metadata.annotations
                          = DOMAIN d2.metadata.annotations
                       /\ \A k \in DOMAIN d1.metadata.annotations
                                    \ {"createdAt"} :
                             d1.metadata.annotations[k]
                             = d2.metadata.annotations[k]
           ELSE q.err = ValidationError

\* two builds of a namespaced resource at different clock values
C17_Witness ==
    \E r \in Reqs :
        /\ BuiltTwice(req[r])
        /\ req[r].err = NoErr
        /\ req[r].args.kind = WebApplication
        /\ Truthy(req[r].args.namespace)
        /\ req[r].items[1] # req[r].items[2]

\* C18: every document a create / deploy operation sends to the control
\* plane has metadata.namespace if and only if its kind is not Workspace,
\* carries the managed-by and resource-type labels and the created-by and
\* created-at annotations, has a name and (when present) a namespace that
\* satisfy the name rule, and has no status field.
C18_SentDocuments ==
    \A r \in Reqs :
        req[r].tool \in ApplyTools
        => \A i \in 1..Len(req[r].calls) :
              LET d == req[r].calls[i].body IN
              /\ ("namespace" \in DOMAIN d.metadata) <=> (d.kind # Workspace)
              /\ d.kind = KindOfTool(req[r].tool)
              /\ d.metadata.labels.managedBy = "mini-atlas-mcp"
              /\ d.metadata.labels.resourceType = toLowerCase(d.kind)
              /\ d.metadata.annotations.createdBy = "mcp-server"
              /\ "createdAt" \in DOMAIN d.metadata.annotations
              /\ validateResourceName(d.metadata.name)
              /\ ("namespace" \in DOMAIN d.metadata
                  => validateNamespace(d.metadata.namespace))
              /\ "status" \notin DOMAIN d

\* a Workspace document was sent and accepted
C18_Witness ==
    \E r \in Reqs :
        /\ ApplyDone(req[r])
        /\ req[r].tool = "create_workspace"
        /\ Len(req[r].calls) = 1
        /\ req[r].calls[1].status = 200
        /\ "namespace" \notin DOMAIN req[r].calls[1].body.metadata

\* the name rule as the specification words it
ViolatesNameRule(s) ==
    \/ Len(s) = 0
    \/ \E i \in 1..Len(s) : s[i] \notin Lower \cup Digit \cup {"-"}
    \/ (Len(s) > 0 /\ s[1] = "-")
    \/ (Len(s) > 0 /\ s[Len(s)] = "-")
    \/ Len(s) > 63

\* C19: validateResourceName throws ValidationError for every name that is
\* empty, holds a character other than a lowercase letter, a digit or '-',
\* starts or ends with '-' or is longer than 63 characters, and returns for
\* every other name; validateNamespace does the same on the same strings.
C19_NameRule ==
    \A r \in Reqs :
        LET q == req[r] IN
        (q.pc = "done"
         /\ q.tool \in {"validateResourceName", "validateNamespace"})
        => /\ ViolatesNameRule(q.args.s) => q.err = ValidationError
           /\ ~ViolatesNameRule(q.args.s) => q.err = NoErr
           /\ (validateResourceName(q.args) <=> validateNamespace(q.args))

\* a name of 63 characters whose last but one character is '-' is accepted
C19_Witness ==
    \E r \in Reqs :
        /\ req[r].pc = "done"
        /\ req[r].tool = "validateNamespace"
        /\ Len(req[r].args.s) = 63
        /\ req[r].args.s[62] = "-"
        /\ req[r].err = NoErr

\* C20: validateReplicas returns exactly for the integers n with
\* 0 <= n <= 100 and throws ValidationError for every negative value, every
\* value above 100 and every value that is not an integer.
C20_ReplicaRange ==
    \A r \in Reqs :
        LET q == req[r]
            v == q.args
        IN  (q.pc = "done" /\ q.tool = "validateReplicas")
            => /\ (q.err = NoErr
                   <=> /\ v.t = "number"
                       /\ v.twice % 2 = 0
                       /\ 0 <= v.twice \div 2
                       /\ v.twice \div 2 <= 100)
               /\ q.err \in {NoErr, ValidationError}

\* the upper limit itself is accepted
C20_Witness ==
    \E r \in Reqs :
        /\ req[r].pc = "done"
        /\ req[r].tool = "validateReplicas"
        /\ req[r].args = Num(100)
        /\ req[r].err = NoErr

\* the call names a namespace in its path
IsNamespaced(call) == "namespace" \in DOMAIN call

\* C21: on Get and Delete the addressing follows the kind: a WebApplication,
\* Infrastructure or Topic is addressed with a namespaced call that carries
\* a namespace, never with a cluster-scoped call, and a Workspace with a
\* cluster-scoped call.
C21_AddressingByKind ==
    \A r \in Reqs :
        LET q == req[r] IN
        (q.tool \in {"get_resource_status", "delete_resource"}
         /\ Truthy(getKindFromType(q.args.type)))
        => \A i \in 1..Len(q.calls) :
              IF q.args.type = "workspace"
              THEN ~IsNamespaced(q.calls[i])
              ELSE /\ IsNamespaced(q.calls[i])
                   /\ Truthy(q.calls[i].namespace)

\* C22: in List the addressing of a kind's list call follows the kind and
\* the namespace filter: with a filter the namespaced kinds are listed with
\* a namespaced call in that namespace, and Workspace is never listed with
\* a namespaced call.
C22_ListAddressingByKind ==
    \A r \in Reqs :
        LET q == req[r] IN
        q.tool = "list_resources"
        => \A i \in 1..Len(q.calls) :
              IF q.calls[i].plural = getResourcePlural(Workspace)
              THEN ~IsNamespaced(q.calls[i])
              ELSE Truthy(q.args.namespace)
                   => /\ IsNamespaced(q.calls[i])
                      /\ q.calls[i].namespace = q.args.namespace

\* the fixed table of plurals
TablePlural(kind) ==
    CASE kind = Workspace ->
             <<"w", "o", "r", "k", "s", "p", "a", "c", "e", "s">>
      [] kind = WebApplication ->
             <<"w", "e", "b", "a", "p", "p", "l", "i", "c", "a", "t", "i",
               "o", "n", "s">>
      [] kind = Infrastructure ->
             <<"i", "n", "f", "r", "a", "s", "t", "r", "u", "c", "t", "u",
               "r", "e", "s">>
      [] kind = Topic -> <<"t", "o", "p", "i", "c", "s">>

TablePlurals == {TablePlural(Kinds[i]) : i \in 1..Len(Kinds)}

\* C23: every call that addresses a collection (create, replace, get,
\* delete, list) uses the plural of the fixed table for its kind, and
\* getResourcePlural returns the table entry for the four kinds and the
\* lowercased kind followed by 's' for any other kind.
C23_Plurals ==
    \A r \in Reqs :
        LET q == req[r] IN
        /\ \A i \in 1..Len(q.calls) :
              "plural" \in DOMAIN q.calls[i]
              => /\ q.calls[i].plural \in TablePlurals
                 /\ q.tool \in ApplyTools
                    => q.calls[i].plural = TablePlural(KindOfTool(q.tool))
        /\ (q.pc = "done" /\ q.tool = "getResourcePlural")
           => q.items[1] = IF q.args.s \in BuilderKinds
                           THEN TablePlural(q.args.s)
                           ELSE toLowerCase(q.args.s) \o <<"s">>

\* C24: parseApiVersion on a string without '/' yields the empty group and
\* the whole string as version (empty group and empty version for the
\* empty string); on a string g/v it yields group g and version v.
C24_ParseApiVersion ==
    \A r \in Reqs :
        LET q == req[r] IN
        (q.pc = "done" /\ q.tool = "parseApiVersion")
        => LET a == q.args.s
               res == q.items[1]
               slashes == {i \in 1..Len(a) : a[i] = "/"}
           IN  /\ slashes = {}
                  => /\ res.group = <<>>
                     /\ res.version = a
               /\ \A p \in slashes :
                     slashes = {p}
                     => /\ res.group = [i \in 1..(p - 1) |-> a[i]]
                        /\ res.version = [i \in 1..(Len(a) - p) |-> a[p + i]]

\* the API version of the program is split into its group and version
C24_Witness ==
    \E r \in Reqs :
        /\ req[r].pc = "done"
        /\ req[r].tool = "parseApiVersion"
        /\ req[r].args = Str(ApiVersion)
        /\ req[r].items[1].group = KroGroup
        /\ req[r].items[1].version = V1Alpha1

\* C25: retry returns the result of the first attempt that succeeds and
\* makes no attempt after it: when the operation first succeeds at attempt
\* k <= maxAttempts it has been invoked k times, k - 1 waits have occurred,
\* no error is raised, and the retry state no longer changes.
C25_RetryStopsAtSuccess ==
    [][/\ boot'.pc = "ready"
          => /\ boot'.attempt <= boot'.maxAttempts
             /\ boot'.result = Num(boot'.attempt)
             /\ Len(boot'.waits) = boot'.attempt - 1
             /\ \A k \in 1..Len(boot'.waits) :
                   boot'.waits[k] = boot'.baseDelay * 2^(k - 1)
             /\ boot'.raised = NoErr
       /\ boot.pc = "ready" => boot' = boot]_vars

\* the operation succeeds at its third attempt
C25_Witness ==
    /\ boot.pc = "ready"
    /\ boot.attempt = 3
    /\ boot.maxAttempts >= 3
    /\ boot.waits = <<boot.baseDelay, 2 * boot.baseDelay>>
    /\ boot.result = Num(3)

\* the kinds a type filter selects, in the order they are listed
SelectedKinds(type) ==
    CASE type = "workspace" -> <<Workspace>>
      [] type = "webapp" -> <<WebApplication>>
      [] type = "infrastructure" -> <<Infrastructure>>
      [] type = "topic" -> <<Topic>>
      [] type = "all" ->
            <<Workspace, WebApplication, Infrastructure, Topic>>

\* C26: List issues one list call per selected kind, in the order
\* Workspace, WebApplication, Infrastructure, Topic, whatever the calls
\* return: a type filter naming a kind selects that kind alone, the filter
\* 'all' selects the four, and the result holds the items in call order.
C26_ListOrder ==
    \A r \in Reqs :
        LET q == req[r]
            sel == SelectedKinds(q.args.type)
        IN  (q.tool = "list_resources"
             /\ q.args.type \in {"workspace", "webapp", "infrastructure",
                                  "topic", "all"})
            => /\ Len(q.calls) <= Len(sel)
               /\ \A i \in 1..Len(q.calls) :
                     q.calls[i].plural = TablePlural(sel[i])
               /\ q.pc = "done"
                  => /\ Len(q.calls) = Len(sel)
                     /\ q.items = ItemsOfSucceeded(store, q.calls, 1)

\* one kind is selected and listed with one call
C26_Witness ==
    \E r \in Reqs :
        /\ ListDone(req[r])
        /\ req[r].args.type = "topic"
        /\ Len(req[r].calls) = 1
        /\ req[r].calls[1].status = 200
        /\ Len(req[r].items) = 1

\* C27: the handler reports a ValidationError as InvalidParams, a
\* ResourceNotFoundError as InvalidRequest and a KubernetesError as
\* InternalError; an InternalError is never the report of a ValidationError
\* or of a ResourceNotFoundError, and a call that succeeds reports no error.
C27_ErrorCodes ==
    \A r \in Reqs :
        LET q == req[r] IN
        q.pc = "done"
        => /\ q.err.type = "ValidationError"
              => (q.reply.isError /\ q.reply.code = "InvalidParams")
           /\ q.err.type = "ResourceNotFoundError"
              => (q.reply.isError /\ q.reply.code = "InvalidRequest")
           /\ q.err.type = "KubernetesError"
              => (q.reply.isError /\ q.reply.code = "InternalError")
           /\ q.reply.code = "InternalError"
              => q.err.type \notin {"ValidationError",
                                    "ResourceNotFoundError"}
           /\ q.err = NoErr => ~q.reply.isError

\* a delete of a missing resource is reported as InvalidRequest
C27_Witness ==
    \E r \in Reqs :
        /\ req[r].pc = "done"
        /\ req[r].tool = "delete_resource"
        /\ req[r].err.type = "ResourceNotFoundError"
        /\ req[r].reply.code = "InvalidRequest"

\* the operation names of the handler's switch
KnownTools ==
    {"create_workspace", "deploy_webapp", "create_infrastructure",
     "create_topic", "get_resource_status", "delete_resource",
     "list_resources", "get_cluster_status"}

\* C28: a tool call whose name is not a known operation name is answered
\* with MethodNotFound and issues no control-plane call.
C28_UnknownTool ==
    \A r \in Reqs :
        LET q == req[r] IN
        (q.pc = "done" /\ q.tool \in Tools \ KnownTools)
        => /\ q.reply.isError
           /\ q.reply.code = "MethodNotFound"
           /\ q.calls = <<>>

\* C29: in deploy web application the replica count of the spec of every
\* document sent is the count of the request whenever the request gives one
\* (every integer from 0 to 100), and 1 only when the request gives none.
C29_ReplicasCarried ==
    \A r \in Reqs :
        LET q == req[r] IN
        q.tool = "deploy_webapp"
        => \A i \in 1..Len(q.calls) :
              q.calls[i].body.spec.replicas
              = IF q.args.replicas = Undef THEN Num(1) ELSE q.args.replicas

\* C30: on a control plane that fails only with 'already exists' on create
\* and 'not found' on replace and delete, a create / deploy call reports
\* success under every interleaving with delete calls for the same
\* resource.
C30_ApplySurvivesDelete ==
    ApplyDone(req[1])
    => /\ req[1].err = NoErr
       /\ ~req[1].reply.isError

====
